---- MODULE Spec2Model ----
(***************************************************************************)
(* ControlMyMonitorGUI.py: a tkinter front-end that shells out to          *)
(* ControlMyMonitor.exe (/GetValue, /SetValue).  The session state is the  *)
(* set of tk variables and widgets the handlers read and write; every      *)
(* handler is one atomic step of the (single-threaded) tk event loop.      *)
(*                                                                         *)
(* Texts that the code parses or formats (the entry field, the value       *)
(* argument of /SetValue) are sequences of one-character strings, so that  *)
(* str() and int() are real conversions.  Status messages are records      *)
(* holding the message kind and the values the f-string interpolates.      *)
(* The slider position is kept in half units (value2 = 2 * value), so that *)
(* int(float(value)) truncates.                                            *)
(***************************************************************************)
EXTENDS Integers, Sequences, FiniteSets, TLC

VARIABLES
    monitor_var,        \* tk.StringVar: selected monitor key
    feature_var,        \* tk.StringVar: selected feature key
    current_value_var,  \* tk.StringVar bound to the entry: text
    value_slider,       \* ttk.Scale: [from, to, value2]
    vcp_code_label,     \* ttk.Label text: [code, min, max]
    status_var,         \* tk.StringVar: status line
    last                \* history: the handler that ran last and what it did

vars == <<monitor_var, feature_var, current_value_var, value_slider,
          vcp_code_label, status_var, last>>

\* ------------------------------------------------------- configuration

MONITORS ==
    ("Primary Monitor" :> "Primary") @@ ("Secondary Monitor" :> "Secondary")

VCP_FEATURES ==
    ("Brightness (0-100)" :> <<"10", 0, 100>>) @@
    ("Contrast (0-100)" :> <<"12", 0, 100>>) @@
    ("Volume (0-100)" :> <<"62", 0, 100>>) @@
    ("Input Select" :> <<"60", 1, 20>>) @@
    ("Power Mode" :> <<"D6", 1, 5>>) @@
    ("OSD Language" :> <<"CC", 1, 10>>) @@
    ("Restore Factory Defaults" :> <<"04", 1, 1>>)

THEMES ==
    ("Lightest" :> <<80, 70, "#f0f0f0", "black">>) @@
    ("Light" :> <<65, 58, "#cccccc", "black">>) @@
    ("Medium" :> <<50, 45, "#888888", "white">>) @@
    ("Dark" :> <<35, 33, "#444444", "white">>) @@
    ("Darkest" :> <<20, 20, "#1a1a1a", "white">>)

BRIGHTNESS_VCP == VCP_FEATURES["Brightness (0-100)"][1]
CONTRAST_VCP == VCP_FEATURES["Contrast (0-100)"][1]

\* MONITORS.get(name): None (falsy, modelled as the empty string) when absent
MonitorsGet(name) == IF name \in DOMAIN MONITORS THEN MONITORS[name] ELSE ""

\* selected_feature.split(' ')[0]
FirstWord ==
    ("Brightness (0-100)" :> "Brightness") @@
    ("Contrast (0-100)" :> "Contrast") @@
    ("Volume (0-100)" :> "Volume") @@
    ("Input Select" :> "Input") @@
    ("Power Mode" :> "Power") @@
    ("OSD Language" :> "OSD") @@
    ("Restore Factory Defaults" :> "Restore")

\* ------------------------------------------------------ str() and int()

Digits == <<"0", "1", "2", "3", "4", "5", "6", "7", "8", "9">>

IsDigit(c) == \E i \in 1..10 : Digits[i] = c

DigitVal(c) == (CHOOSE i \in 1..10 : Digits[i] = c) - 1

RECURSIVE NatStr(_)
NatStr(n) ==
    IF n < 10 THEN <<Digits[n + 1]>>
    ELSE NatStr(n \div 10) \o <<Digits[(n % 10) + 1]>>

\* str(n) of a Python int
Str(n) == IF n < 0 THEN <<"-">> \o NatStr(-n) ELSE NatStr(n)

RECURSIVE LStrip(_)
LStrip(s) == IF s # <<>> /\ Head(s) = " " THEN LStrip(Tail(s)) ELSE s

RECURSIVE RStrip(_)
RStrip(s) ==
    IF s # <<>> /\ s[Len(s)] = " " THEN RStrip(SubSeq(s, 1, Len(s) - 1)) ELSE s

\* digits, single underscores allowed between digits
DigitsOk(d) ==
    /\ d # <<>>
    /\ IsDigit(d[1])
    /\ IsDigit(d[Len(d)])
    /\ \A i \in 1..Len(d) : IsDigit(d[i]) \/ d[i] = "_"
    /\ \A i \in 1..(Len(d) - 1) : ~(d[i] = "_" /\ d[i + 1] = "_")

RECURSIVE DigitsVal(_, _)
DigitsVal(d, acc) ==
    IF d = <<>> THEN acc
    ELSE IF Head(d) = "_" THEN DigitsVal(Tail(d), acc)
    ELSE DigitsVal(Tail(d), 10 * acc + DigitVal(Head(d)))

\* int(text): [ok |-> FALSE] stands for ValueError
ParseInt(text) ==
    LET s == RStrip(LStrip(text))
        signed == s # <<>> /\ Head(s) \in {"-", "+"}
        d == IF signed THEN Tail(s) ELSE s
    IN  IF DigitsOk(d)
        THEN [ok |-> TRUE,
              value |-> IF signed /\ Head(s) = "-" THEN -DigitsVal(d, 0)
                        ELSE DigitsVal(d, 0)]
        ELSE [ok |-> FALSE, value |-> 0]

\* int(float(value)) of a slider position given in half units
Trunc2(value2) ==
    IF value2 >= 0 THEN value2 \div 2 ELSE -((-value2) \div 2)

\* ------------------------------------------------------ status messages

Status(kind, name, code, b, c, monitor) ==
    [kind |-> kind, name |-> name, code |-> code, b |-> b, c |-> c,
     monitor |-> monitor]

ReadyStatus == Status("Ready", "", 0, 0, 0, "")
SelectedStatus(f) == Status("Selected", f, 0, 0, 0, "")
CurrentValueStatus(f, v) == Status("CurrentValue", f, v, 0, 0, "")
ErrorFetchingStatus(code) == Status("ErrorFetching", "", code, 0, 0, "")
NotFoundStatus == Status("NotFound", "", 0, 0, 0, "")
UnexpectedStatus == Status("Unexpected", "", 0, 0, 0, "")
CommandErrorStatus(code, feature_name) ==
    Status("CommandError", feature_name, code, 0, 0, "")
SelectMonitorStatus == Status("SelectMonitorFirst", "", 0, 0, 0, "")
NotIntegerStatus == Status("NotInteger", "", 0, 0, 0, "")
SuccessStatus(theme_name, b, c, monitor_name) ==
    Status("SUCCESS", theme_name, 0, b, c, monitor_name)

\* --------------------------------------------- the external process

\* What subprocess.run meets: the process exits with a code, the
\* executable is missing (FileNotFoundError), or another exception.
MaxByte == 255

NotFound == [kind |-> "notfound", code |-> 0]
OtherException == [kind |-> "exception", code |-> 0]

\* /GetValue: the exit status carries the value
ReadExitCodes == {-9, 0, MaxByte, MaxByte + 1}
ReadOutcomes ==
    [kind : {"exit"}, code : ReadExitCodes] \cup {NotFound, OtherException}

\* /SetValue: the exit status is zero or not
WriteExitCodes == {0, 1}
WriteOutcomes == [kind : {"exit"}, code : WriteExitCodes] \cup {NotFound}

\* values a function of the invocator returns
RetNone == [kind |-> "None", value |-> 0]
RetInt(v) == [kind |-> "int", value |-> v]
RetBool(b) == [kind |-> "bool", value |-> IF b THEN 1 ELSE 0]

Call(verb, monitor_string, vcp_code, value, outcome, ret) ==
    [verb |-> verb, monitor |-> monitor_string, vcp |-> vcp_code,
     value |-> value, outcome |-> outcome, ret |-> ret]

\* --------------------------------------------------------- the session

\* The session a handler starts from: the tk variables and widgets, plus
\* the record of what the handler has done so far.
Session ==
    [monitor_var |-> monitor_var, feature_var |-> feature_var,
     current_value_var |-> current_value_var, value_slider |-> value_slider,
     vcp_code_label |-> vcp_code_label, status_var |-> status_var,
     calls |-> <<>>, raised |-> FALSE]

\* ------------------------------------------------------ the slider

\* update_entry_from_slider(value): the slider's command
update_entry_from_slider(S, value2) ==
    [S EXCEPT !.current_value_var = Str(Trunc2(value2))]

\* value_slider.set(x): ttk.Scale clips x to its from/to range, stores it
\* and invokes its command with the stored value
ScaleSet(S, x2) ==
    LET lo == 2 * S.value_slider.from
        hi == 2 * S.value_slider.to
        v2 == IF lo < hi
              THEN (IF x2 < lo THEN lo ELSE IF x2 > hi THEN hi ELSE x2)
              ELSE (IF x2 < hi THEN hi ELSE IF x2 > lo THEN lo ELSE x2)
    IN  update_entry_from_slider([S EXCEPT !.value_slider.value2 = v2], v2)

\* ---------------------------------------------------- command invocator

\* get_vcp_value with the range test off by one (> 256 for > 255)
get_vcp_value_offbyone(S, monitor_string, vcp_code, outcome) ==
    LET bad == outcome.code > MaxByte + 1 \/ outcome.code < 0
        ret == IF outcome.kind = "exit" /\ ~bad THEN RetInt(outcome.code)
               ELSE RetNone
        called == [S EXCEPT !.calls =
                     Append(@, Call("/GetValue", monitor_string, vcp_code,
                                    <<>>, outcome, ret))]
    IN  IF outcome.kind = "exit"
        THEN IF bad
             THEN [st |-> [called EXCEPT !.status_var =
                                     ErrorFetchingStatus(outcome.code)],
                   ret |-> ret]
             ELSE [st |-> called, ret |-> ret]
        ELSE IF outcome.kind = "notfound"
        THEN [st |-> [called EXCEPT !.status_var = NotFoundStatus],
              ret |-> ret]
        ELSE [st |-> [called EXCEPT !.status_var = UnexpectedStatus],
              ret |-> ret]

\* get_vcp_value without the final "except Exception" clause
get_vcp_value_uncaught(S, monitor_string, vcp_code, outcome) ==
    LET ret == IF outcome.kind = "exit"
                  /\ ~(outcome.code > MaxByte \/ outcome.code < 0)
               THEN RetInt(outcome.code)
               ELSE RetNone
        called == [S EXCEPT !.calls =
                     Append(@, Call("/GetValue", monitor_string, vcp_code,
                                    <<>>, outcome, ret))]
    IN  IF outcome.kind = "exit"
        THEN IF outcome.code > MaxByte \/ outcome.code < 0
             THEN [st |-> [called EXCEPT !.status_var =
                                     ErrorFetchingStatus(outcome.code)],
                   ret |-> ret]
             ELSE [st |-> called, ret |-> ret]
        ELSE IF outcome.kind = "notfound"
        THEN [st |-> [called EXCEPT !.status_var = NotFoundStatus],
              ret |-> ret]
        ELSE [st |-> [called EXCEPT !.raised = TRUE], ret |-> ret]

\* get_vcp_value(monitor_string, vcp_code): [st, ret]
get_vcp_value(S, monitor_string, vcp_code, outcome) ==
    LET ret == IF outcome.kind = "exit"
                  /\ ~(outcome.code > MaxByte \/ outcome.code < 0)
               THEN RetInt(outcome.code)
               ELSE RetNone
        called == [S EXCEPT !.calls =
                     Append(@, Call("/GetValue", monitor_string, vcp_code,
                                    <<>>, outcome, ret))]
    IN  IF outcome.kind = "exit"
        THEN IF outcome.code > MaxByte \/ outcome.code < 0
             THEN [st |-> [called EXCEPT !.status_var =
                                     ErrorFetchingStatus(outcome.code)],
                   ret |-> ret]
             ELSE [st |-> called, ret |-> ret]
        ELSE IF outcome.kind = "notfound"
        THEN [st |-> [called EXCEPT !.status_var = NotFoundStatus],
              ret |-> ret]
        ELSE [st |-> [called EXCEPT !.status_var = UnexpectedStatus],
              ret |-> ret]

\* set_vcp_value(monitor_string, vcp_code, value, feature_name): [st, ret]
\* subprocess.run(check=True) raises CalledProcessError on a non-zero exit
set_vcp_value(S, monitor_string, vcp_code, value, feature_name, outcome) ==
    LET ok == outcome.kind = "exit" /\ outcome.code = 0
        called == [S EXCEPT !.calls =
                     Append(@, Call("/SetValue", monitor_string, vcp_code,
                                    Str(value), outcome, RetBool(ok)))]
    IN  IF ok
        THEN [st |-> called, ret |-> TRUE]
        ELSE IF outcome.kind = "exit"
        THEN [st |-> [called EXCEPT !.status_var =
                        CommandErrorStatus(outcome.code, feature_name)],
              ret |-> FALSE]
        ELSE IF outcome.kind = "notfound"
        THEN [st |-> [called EXCEPT !.status_var = NotFoundStatus],
              ret |-> FALSE]
        ELSE [st |-> [called EXCEPT !.status_var = UnexpectedStatus],
              ret |-> FALSE]

\* ---------------------------------------------------------- handlers

\* update_ui_for_feature resetting the value to max_val for min_val
update_ui_for_feature_max(S) ==
    LET selected_feature == S.feature_var IN
    IF selected_feature = "" THEN S
    ELSE IF selected_feature \notin DOMAIN VCP_FEATURES
    THEN [S EXCEPT !.raised = TRUE]
    ELSE LET vcp_code == VCP_FEATURES[selected_feature][1]
             min_val == VCP_FEATURES[selected_feature][2]
             max_val == VCP_FEATURES[selected_feature][3]
         IN  [S EXCEPT !.value_slider.from = min_val,
                       !.value_slider.to = max_val,
                       !.vcp_code_label =
                           [code |-> vcp_code, min |-> min_val,
                            max |-> max_val],
                       !.current_value_var = Str(max_val),
                       !.status_var = SelectedStatus(selected_feature)]

\* update_ui_for_feature(event=None)
update_ui_for_feature(S) ==
    LET selected_feature == S.feature_var IN
    IF selected_feature = "" THEN S
    ELSE IF selected_feature \notin DOMAIN VCP_FEATURES
    THEN [S EXCEPT !.raised = TRUE]
    ELSE LET vcp_code == VCP_FEATURES[selected_feature][1]
             min_val == VCP_FEATURES[selected_feature][2]
             max_val == VCP_FEATURES[selected_feature][3]
         IN  [S EXCEPT !.value_slider.from = min_val,
                       !.value_slider.to = max_val,
                       !.vcp_code_label =
                           [code |-> vcp_code, min |-> min_val,
                            max |-> max_val],
                       !.current_value_var = Str(min_val),
                       !.status_var = SelectedStatus(selected_feature)]

\* apply_theme updating the controls when either write succeeds
apply_theme_or(S, theme_name, o_b, o_c) ==
    LET monitor_name == S.monitor_var
        monitor_string == MonitorsGet(monitor_name)
    IN
    IF monitor_string = ""
    THEN [S EXCEPT !.status_var = SelectMonitorStatus]
    ELSE
    LET brightness_val == THEMES[theme_name][1]
        contrast_val == THEMES[theme_name][2]
        set_b == set_vcp_value(S, monitor_string, BRIGHTNESS_VCP,
                               brightness_val, "Brightness", o_b)
        set_c == set_vcp_value(set_b.st, monitor_string, CONTRAST_VCP,
                               contrast_val, "Contrast", o_c)
    IN  IF set_b.ret \/ set_c.ret
        THEN LET S1 == [set_c.st EXCEPT
                          !.feature_var = "Contrast (0-100)",
                          !.current_value_var = Str(contrast_val)]
                 S2 == ScaleSet(S1, 2 * contrast_val)
                 S3 == update_ui_for_feature(S2)
             IN  [S3 EXCEPT !.status_var =
                     SuccessStatus(theme_name, brightness_val, contrast_val,
                                   monitor_name)]
        ELSE set_c.st

\* apply_theme writing contrast before brightness
apply_theme_swapped(S, theme_name, o_b, o_c) ==
    LET monitor_name == S.monitor_var
        monitor_string == MonitorsGet(monitor_name)
    IN
    IF monitor_string = ""
    THEN [S EXCEPT !.status_var = SelectMonitorStatus]
    ELSE
    LET brightness_val == THEMES[theme_name][1]
        contrast_val == THEMES[theme_name][2]
        set_c == set_vcp_value(S, monitor_string, CONTRAST_VCP,
                               contrast_val, "Contrast", o_c)
        set_b == set_vcp_value(set_c.st, monitor_string, BRIGHTNESS_VCP,
                               brightness_val, "Brightness", o_b)
    IN  IF set_b.ret /\ set_c.ret
        THEN LET S1 == [set_b.st EXCEPT
                          !.feature_var = "Contrast (0-100)",
                          !.current_value_var = Str(contrast_val)]
                 S2 == ScaleSet(S1, 2 * contrast_val)
                 S3 == update_ui_for_feature(S2)
             IN  [S3 EXCEPT !.status_var =
                     SuccessStatus(theme_name, brightness_val, contrast_val,
                                   monitor_name)]
        ELSE set_b.st

\* apply_theme without the "select a monitor first" test
apply_theme_nocheck(S, theme_name, o_b, o_c) ==
    LET monitor_name == S.monitor_var
        monitor_string == MonitorsGet(monitor_name)
    IN
    LET brightness_val == THEMES[theme_name][1]
        contrast_val == THEMES[theme_name][2]
        set_b == set_vcp_value(S, monitor_string, BRIGHTNESS_VCP,
                               brightness_val, "Brightness", o_b)
        set_c == set_vcp_value(set_b.st, monitor_string, CONTRAST_VCP,
                               contrast_val, "Contrast", o_c)
    IN  IF set_b.ret /\ set_c.ret
        THEN LET S1 == [set_c.st EXCEPT
                          !.feature_var = "Contrast (0-100)",
                          !.current_value_var = Str(contrast_val)]
                 S2 == ScaleSet(S1, 2 * contrast_val)
                 S3 == update_ui_for_feature(S2)
             IN  [S3 EXCEPT !.status_var =
                     SuccessStatus(theme_name, brightness_val, contrast_val,
                                   monitor_name)]
        ELSE set_c.st

\* apply_theme(theme_name); o_b, o_c: what the two invocations meet
apply_theme(S, theme_name, o_b, o_c) ==
    LET monitor_name == S.monitor_var
        monitor_string == MonitorsGet(monitor_name)
    IN
    IF monitor_string = ""
    THEN [S EXCEPT !.status_var = SelectMonitorStatus]
    ELSE
    LET brightness_val == THEMES[theme_name][1]
        contrast_val == THEMES[theme_name][2]
        set_b == set_vcp_value(S, monitor_string, BRIGHTNESS_VCP,
                               brightness_val, "Brightness", o_b)
        set_c == set_vcp_value(set_b.st, monitor_string, CONTRAST_VCP,
                               contrast_val, "Contrast", o_c)
    IN  IF set_b.ret /\ set_c.ret
        THEN LET S1 == [set_c.st EXCEPT
                          !.feature_var = "Contrast (0-100)",
                          !.current_value_var = Str(contrast_val)]
                 S2 == ScaleSet(S1, 2 * contrast_val)
                 S3 == update_ui_for_feature(S2)
             IN  [S3 EXCEPT !.status_var =
                     SuccessStatus(theme_name, brightness_val, contrast_val,
                                   monitor_name)]
        ELSE set_c.st

\* on_get_value_click()
on_get_value_click(S, outcome) ==
    IF S.feature_var \notin DOMAIN VCP_FEATURES
    THEN [S EXCEPT !.raised = TRUE]
    ELSE
    LET monitor_string == MonitorsGet(S.monitor_var)
        selected_feature == S.feature_var
        vcp_code == VCP_FEATURES[selected_feature][1]
    IN  IF monitor_string # "" /\ vcp_code # ""
        THEN LET got == get_vcp_value(S, monitor_string, vcp_code, outcome)
             IN  IF got.ret.kind # "None"
                 THEN LET current_val == got.ret.value
                          S1 == [got.st EXCEPT
                                   !.current_value_var = Str(current_val)]
                          S2 == ScaleSet(S1, 2 * current_val)
                      IN  [S2 EXCEPT !.status_var =
                              CurrentValueStatus(selected_feature,
                                                 current_val)]
                 ELSE got.st
        ELSE S

\* on_set_value_click without the return after the ValueError
on_set_value_click_noreturn(S, outcome) ==
    LET monitor_string == MonitorsGet(S.monitor_var)
        selected_feature == S.feature_var
        vcp_code == VCP_FEATURES[selected_feature][1]
        parsed == ParseInt(S.current_value_var)
        S1 == IF parsed.ok THEN S
              ELSE [S EXCEPT !.status_var = NotIntegerStatus]
    IN  IF monitor_string # "" /\ vcp_code # ""
        THEN set_vcp_value(S1, monitor_string, vcp_code, parsed.value,
                           FirstWord[selected_feature], outcome).st
        ELSE S1

\* on_set_value_click clamping the value to the feature's range
on_set_value_click_clamped(S, outcome) ==
    LET monitor_string == MonitorsGet(S.monitor_var)
        selected_feature == S.feature_var
        vcp_code == VCP_FEATURES[selected_feature][1]
        min_val == VCP_FEATURES[selected_feature][2]
        max_val == VCP_FEATURES[selected_feature][3]
        parsed == ParseInt(S.current_value_var)
        new_value == IF parsed.value < min_val THEN min_val
                     ELSE IF parsed.value > max_val THEN max_val
                     ELSE parsed.value
    IN  IF ~parsed.ok
        THEN [S EXCEPT !.status_var = NotIntegerStatus]
        ELSE IF monitor_string # "" /\ vcp_code # ""
        THEN set_vcp_value(S, monitor_string, vcp_code, new_value,
                           FirstWord[selected_feature], outcome).st
        ELSE S

\* on_set_value_click()
on_set_value_click(S, outcome) ==
    IF S.feature_var \notin DOMAIN VCP_FEATURES
    THEN [S EXCEPT !.raised = TRUE]
    ELSE
    LET monitor_string == MonitorsGet(S.monitor_var)
        selected_feature == S.feature_var
        vcp_code == VCP_FEATURES[selected_feature][1]
        parsed == ParseInt(S.current_value_var)
    IN  IF ~parsed.ok
        THEN [S EXCEPT !.status_var = NotIntegerStatus]
        ELSE IF monitor_string # "" /\ vcp_code # ""
        THEN set_vcp_value(S, monitor_string, vcp_code, parsed.value,
                           FirstWord[selected_feature], outcome).st
        ELSE S

\* ------------------------------------------------------- user inputs

\* texts the user types into the entry
EntryTexts ==
    { <<"a", "b", "c">>, <<>>, <<"-", "3">>, <<" ", "3", "0", "0">> }

\* positions (in half units) the user drags the slider to
DragPositions2 == {7}

\* ----------------------------------------------------------- actions

\* The handler's effects become the next state.
Commit(S, op, arg) ==
    /\ monitor_var' = S.monitor_var
    /\ feature_var' = S.feature_var
    /\ current_value_var' = S.current_value_var
    /\ value_slider' = S.value_slider
    /\ vcp_code_label' = S.vcp_code_label
    /\ status_var' = S.status_var
    /\ last' = [op |-> op, arg |-> arg, calls |-> S.calls,
                raised |-> S.raised]

\* the user picks a monitor in monitor_dropdown (no command bound)
SelectMonitor ==
    \E m \in DOMAIN MONITORS :
        Commit([Session EXCEPT !.monitor_var = m], "select_monitor", m)

\* the user picks a feature in feature_dropdown: the OptionMenu sets
\* feature_var and calls update_ui_for_feature
SelectFeature ==
    \E f \in DOMAIN VCP_FEATURES :
        Commit(update_ui_for_feature([Session EXCEPT !.feature_var = f]),
               "select_feature", f)

GetValueClick ==
    \E o \in ReadOutcomes : Commit(on_get_value_click(Session, o), "get", "")

SetValueClick ==
    \E o \in WriteOutcomes : Commit(on_set_value_click(Session, o), "set", "")

ThemeClick ==
    \E t \in DOMAIN THEMES : \E o_b, o_c \in WriteOutcomes :
        Commit(apply_theme(Session, t, o_b, o_c), "theme", t)

\* the user drags the slider: the widget sets its value and calls
\* update_entry_from_slider
SliderMove ==
    \E p2 \in DragPositions2 :
        /\ 2 * value_slider.from <= p2
        /\ p2 <= 2 * value_slider.to
        /\ Commit(ScaleSet(Session, p2), "slider", "")

\* the user types into value_entry (textvariable=current_value_var)
EditEntry ==
    \E t \in EntryTexts :
        Commit([Session EXCEPT !.current_value_var = t], "entry", "")

\* The state when root.mainloop() starts: the variables' initial values,
\* then update_ui_for_feature() (line 286).
InitSession(monitor_name) ==
    update_ui_for_feature(
        [monitor_var |-> monitor_name,
         feature_var |-> "Brightness (0-100)",
         current_value_var |-> Str(50),
         value_slider |-> [from |-> 0, to |-> 100, value2 |-> 0],
         vcp_code_label |-> [code |-> "", min |-> 0, max |-> 0],
         status_var |-> ReadyStatus,
         calls |-> <<>>, raised |-> FALSE])

InitFrom(S) ==
    /\ monitor_var = S.monitor_var
    /\ feature_var = S.feature_var
    /\ current_value_var = S.current_value_var
    /\ value_slider = S.value_slider
    /\ vcp_code_label = S.vcp_code_label
    /\ status_var = S.status_var
    /\ last = [op |-> "init", arg |-> "", calls |-> <<>>, raised |-> FALSE]

Init == InitFrom(InitSession("Primary Monitor"))

Next ==
    \/ SelectMonitor
    \/ SelectFeature
    \/ GetValueClick
    \/ SetValueClick
    \/ ThemeClick
    \/ SliderMove
    \/ EditEntry

Spec == Init /\ [][Next]_vars

\* The handlers driven with monitor_var set by other means than the
\* dropdown (which only offers the keys of MONITORS): empty, or a key
\* that MONITORS does not hold.
UnmappedMonitors == {"", "Tertiary Monitor"}

HarnessInit ==
    \E m \in DOMAIN MONITORS \cup UnmappedMonitors :
        InitFrom(InitSession(m))

SpecHarness == HarnessInit /\ [][Next]_vars

\* ------------------------------------------------------------ claims

\* an invocation whose function returned None or False
Failed(call) == call.ret = RetNone \/ call.ret = RetBool(FALSE)

Succeeded(call) == call.outcome = [kind |-> "exit", code |-> 0]

\* the diagnostic set_vcp_value leaves for a failed write
WriteDiagnostic(call, feature_name) ==
    IF call.outcome.kind = "exit"
    THEN Status("CommandError", feature_name, call.outcome.code, 0, 0, "")
    ELSE IF call.outcome.kind = "notfound"
    THEN Status("NotFound", "", 0, 0, 0, "")
    ELSE Status("Unexpected", "", 0, 0, 0, "")

ControlsUnchanged ==
    /\ feature_var' = feature_var
    /\ current_value_var' = current_value_var
    /\ value_slider' = value_slider
    /\ vcp_code_label' = vcp_code_label

\* C1: after a theme preset whose two writes both exit 0, the feature
\* selector shows the contrast feature, the displayed value is the theme's
\* contrast value and the status names the theme and both values.
C1_ThemeSuccessPostState ==
    (/\ last.op = "theme"
     /\ Len(last.calls) = 2
     /\ Succeeded(last.calls[1])
     /\ Succeeded(last.calls[2]))
    => /\ feature_var = "Contrast (0-100)"
       /\ current_value_var = Str(THEMES[last.arg][2])
       /\ status_var.kind = "SUCCESS"
       /\ status_var.name = last.arg
       /\ status_var.b = THEMES[last.arg][1]
       /\ status_var.c = THEMES[last.arg][2]

\* C2: after a "get" whose process exits with v in 0..255, the displayed
\* value is exactly v (the most recent result, for every feature and
\* slider range).
C2_GetShowsValue ==
    (/\ last.op = "get"
     /\ Len(last.calls) = 1
     /\ last.calls[1].outcome.kind = "exit"
     /\ last.calls[1].outcome.code \in 0..255)
    => current_value_var = Str(last.calls[1].outcome.code)

\* the step met one of the five error kinds
ErrorMet ==
    \/ \E i \in 1..Len(last'.calls) : Failed(last'.calls[i])
    \/ last'.op = "set" /\ ~ParseInt(current_value_var).ok
    \/ last'.op = "theme" /\ monitor_var \notin DOMAIN MONITORS

ErrorStatusKinds ==
    {"ErrorFetching", "NotFound", "Unexpected", "CommandError", "NotInteger",
     "SelectMonitorFirst"}

ErrorFrame ==
    /\ monitor_var' = monitor_var
    /\ ControlsUnchanged
    /\ status_var'.kind \in ErrorStatusKinds
    /\ ~last'.raised

\* C3 (as claimed): a handler that meets an error sets the status and
\* does nothing more: no invocation follows the failed one (in the theme
\* preset, no write follows a failed brightness write), no session state
\* but the status changes, nothing is raised.
C3_NoFurtherAction ==
    [][ErrorMet =>
          /\ ErrorFrame
          /\ \A i \in 1..Len(last'.calls) :
                 Failed(last'.calls[i]) => i = Len(last'.calls)]_vars

\* C3 (amended): as claimed, except that the theme preset issues both of
\* its writes whatever the first returns: a failed brightness write is
\* followed by the contrast write and by nothing else.
C3_ErrorsOnlySetStatus ==
    [][ErrorMet =>
          /\ ErrorFrame
          /\ \A i \in 1..Len(last'.calls) :
                 Failed(last'.calls[i]) =>
                     \/ i = Len(last'.calls)
                     \/ /\ last'.op = "theme"
                        /\ i = 1
                        /\ Len(last'.calls) = 2
                        /\ last'.calls[2].verb = "/SetValue"
                        /\ last'.calls[2].vcp = "12"]_vars

C3_Witness ==
    /\ last.op = "theme"
    /\ Len(last.calls) = 2
    /\ Failed(last.calls[1])
    /\ Succeeded(last.calls[2])
    /\ status_var.kind = "CommandError"
    /\ status_var.name = "Brightness"

\* C4: a "get" whose process exits outside 0..255, is not found or raises
\* returns None, leaves the displayed value and the slider as they were,
\* replaces the status by the diagnostic (with the raw exit code when out
\* of range), and raises nothing.
C4_GetFailureFrame ==
    [][(/\ last'.op = "get"
        /\ Len(last'.calls) = 1
        /\ ~(/\ last'.calls[1].outcome.kind = "exit"
             /\ last'.calls[1].outcome.code \in 0..255))
       => /\ last'.calls[1].ret = RetNone
          /\ current_value_var' = current_value_var
          /\ value_slider' = value_slider
          /\ status_var' =
                IF last'.calls[1].outcome.kind = "exit"
                THEN Status("ErrorFetching", "",
                            last'.calls[1].outcome.code, 0, 0, "")
                ELSE IF last'.calls[1].outcome.kind = "notfound"
                THEN Status("NotFound", "", 0, 0, 0, "")
                ELSE Status("Unexpected", "", 0, 0, 0, "")
          /\ ~last'.raised]_vars

C4_Witness ==
    /\ last.op = "get"
    /\ Len(last.calls) = 1
    /\ last.calls[1].outcome = [kind |-> "exit", code |-> 256]
    /\ status_var.kind = "ErrorFetching"
    /\ status_var.code = 256
    /\ current_value_var = <<"-", "3">>

\* C5: a write that exits non-zero returns False, raises nothing and
\* leaves the displayed value; a theme preset one of whose writes fails
\* leaves feature, displayed value, slider and range label as they were
\* and changes only the status, to the diagnostic of a failing write.
C5_WriteFailureFrame ==
    [][/\ (/\ last'.op = "set"
           /\ Len(last'.calls) = 1
           /\ last'.calls[1].outcome.kind = "exit"
           /\ last'.calls[1].outcome.code # 0)
          => /\ last'.calls[1].ret = RetBool(FALSE)
             /\ ~last'.raised
             /\ current_value_var' = current_value_var
       /\ (/\ last'.op = "theme"
           /\ \E i \in 1..Len(last'.calls) : ~Succeeded(last'.calls[i]))
          => /\ ControlsUnchanged
             /\ monitor_var' = monitor_var
             /\ ~last'.raised
             /\ status_var'.kind # "SUCCESS"
             /\ status_var' =
                   IF ~Succeeded(last'.calls[2])
                   THEN WriteDiagnostic(last'.calls[2], "Contrast")
                   ELSE WriteDiagnostic(last'.calls[1], "Brightness")]_vars

C5_Witness ==
    /\ last.op = "theme"
    /\ Len(last.calls) = 2
    /\ Succeeded(last.calls[1])
    /\ last.calls[2].outcome = [kind |-> "exit", code |-> 1]
    /\ status_var.kind = "CommandError"
    /\ status_var.name = "Contrast"
    /\ feature_var = "Power Mode"

\* C6: after a feature F is selected the displayed value is F's minimum,
\* the range label shows F's code and range, and nothing was invoked.
C6_FeatureSelected ==
    last.op = "select_feature" =>
        /\ feature_var = last.arg
        /\ current_value_var = Str(VCP_FEATURES[last.arg][2])
        /\ vcp_code_label = [code |-> VCP_FEATURES[last.arg][1],
                             min |-> VCP_FEATURES[last.arg][2],
                             max |-> VCP_FEATURES[last.arg][3]]
        /\ last.calls = <<>>

C6_Witness ==
    /\ last.op = "select_feature"
    /\ last.arg = "Input Select"
    /\ current_value_var = <<"1">>
    /\ vcp_code_label = [code |-> "60", min |-> 1, max |-> 20]
    /\ value_slider.value2 = 200

\* C7: a theme preset with a monitor selected issues exactly two
\* invocations: /SetValue of code "10" with the brightness value, then
\* /SetValue of code "12" with the contrast value, both for the selected
\* monitor's identifier.
C7_TwoWritesInOrder ==
    (last.op = "theme" /\ monitor_var \in DOMAIN MONITORS) =>
        /\ Len(last.calls) = 2
        /\ \A i \in 1..2 :
              /\ last.calls[i].verb = "/SetValue"
              /\ last.calls[i].monitor = MONITORS[monitor_var]
        /\ last.calls[1].vcp = "10"
        /\ last.calls[1].value = Str(THEMES[last.arg][1])
        /\ last.calls[2].vcp = "12"
        /\ last.calls[2].value = Str(THEMES[last.arg][2])

C7_Witness ==
    /\ last.op = "theme"
    /\ last.arg = "Lightest"
    /\ monitor_var = "Secondary Monitor"
    /\ Len(last.calls) = 2
    /\ last.calls[1].monitor = "Secondary"
    /\ last.calls[1].value = <<"8", "0">>
    /\ last.calls[2].value = <<"7", "0">>
    /\ ~Succeeded(last.calls[1])

\* texts that int() rejects
MalformedTexts == { <<"a", "b", "c">>, <<>>, <<"1", "2", ".", "5">> }

\* C8: "set" with a value field that is no integer invokes nothing, sets
\* the validation status, leaves value field, feature and monitor, and
\* raises nothing.
C8_MalformedSet ==
    [][/\ \A t \in MalformedTexts : ~ParseInt(t).ok
       /\ (last'.op = "set" /\ current_value_var \in MalformedTexts)
          => /\ last'.calls = <<>>
             /\ status_var' = Status("NotInteger", "", 0, 0, 0, "")
             /\ current_value_var' = current_value_var
             /\ feature_var' = feature_var
             /\ monitor_var' = monitor_var
             /\ ~last'.raised]_vars

C8_Witness ==
    /\ last.op = "set"
    /\ current_value_var = <<"a", "b", "c">>
    /\ status_var.kind = "NotInteger"
    /\ last.calls = <<>>

\* C9: a theme preset while monitor_var maps to no identifier invokes
\* nothing, sets the "select a monitor" status and leaves the selected
\* feature and the displayed value.
C9_ThemeWithoutMonitor ==
    [][(last'.op = "theme" /\ monitor_var \notin DOMAIN MONITORS)
       => /\ last'.calls = <<>>
          /\ status_var' = Status("SelectMonitorFirst", "", 0, 0, 0, "")
          /\ feature_var' = feature_var
          /\ current_value_var' = current_value_var]_vars

C9_Witness ==
    /\ last.op = "theme"
    /\ monitor_var = "Tertiary Monitor"
    /\ status_var.kind = "SelectMonitorFirst"
    /\ last.calls = <<>>
    /\ feature_var = "Volume (0-100)"

\* C10: "set" with a value field that parses as the integer n and a
\* monitor selected issues exactly one /SetValue, for the selected
\* monitor and the selected feature's code, with str(n): n is not clamped
\* to the feature's range.
C10_SetUnclamped ==
    [][(/\ last'.op = "set"
        /\ ParseInt(current_value_var).ok
        /\ monitor_var \in DOMAIN MONITORS)
       => /\ Len(last'.calls) = 1
          /\ last'.calls[1].verb = "/SetValue"
          /\ last'.calls[1].monitor = MONITORS[monitor_var]
          /\ last'.calls[1].vcp = VCP_FEATURES[feature_var][1]
          /\ last'.calls[1].value =
                 Str(ParseInt(current_value_var).value)]_vars

C10_Witness ==
    /\ last.op = "set"
    /\ feature_var = "Power Mode"
    /\ current_value_var = <<" ", "3", "0", "0">>
    /\ Len(last.calls) = 1
    /\ last.calls[1].vcp = "D6"
    /\ last.calls[1].value = <<"3", "0", "0">>

====
